---- MODULE Spec2Model ----
(***************************************************************************)
(* Model of check_mqtt.py: a watchdog that connects to an MQTT broker,     *)
(* subscribes to the configured device topics, polls a shared ledger       *)
(* (userdata['message_received']) once per second for args.time seconds    *)
(* while the paho network thread runs on_connect / on_message, stops the   *)
(* network loop and sends at most one Telegram notification.               *)
(*                                                                         *)
(* Two threads are modelled: the main thread (variable pc) and the paho    *)
(* network thread (variable netThread), which interleave at statement      *)
(* granularity.  Time is counted in ticks, TicksPerSec ticks per second;   *)
(* statements take no time and time.sleep(1) takes exactly one second.     *)
(***************************************************************************)
EXTENDS Integers, Sequences, FiniteSets

\* ---------------------------------------------------------------- bounds
MaxTime == 2          \* largest --time value explored (seconds)
MaxDevices == 2       \* longest DEVICES list explored
MaxMsgs == 3          \* most on_message invocations in one run
TicksPerSec == 2      \* clock resolution: ticks per second

\* MQTT topic filters that may appear in config.ini ("" is what
\* ''.split(', ') yields for an empty TOPICS option, "#" is the multi-level
\* wildcard) and the concrete topics devices publish on.
ConfigTopics == {"", "a", "b", "#"}
PublishTopics == {"a", "b"}

\* ------------------------------------------------------- message texts
ConnFailText == "Could not connect to MQTT broker. Please check your MQTT settings."
CheckAlertText == "No MQTT message was received from any device. Please check."
DebugOkText == "At least one device has sent an MQTT message. Your Zigbee Router/Repeater is working properly."
DebugFailText == "No MQTT message was received from any device. Your Zigbee Router/Repeater may not be functioning properly. Please check."
NoMessage == "<none>"

VARIABLES
    args,              \* parsed command line: [check, debug, time]
    DEVICES,           \* list of configured topics
    pc,                \* position of the main thread
    client,            \* "unset" | "None" | "client"
    broker,            \* "unknown" | "unreachable" | "accepted" | "refused"
    connOpen,          \* TRUE once client.connect() has opened the transport
    connack,           \* "pending" | "accepted" | "refused": rc seen by on_connect
    message_received,  \* the ledger dict, a sequence of [k, v] in insertion order
    subscribed,        \* topic filters for which client.subscribe() was issued
    netThread,         \* "none" | "running" | "dead" | "stopped"
    now,               \* wall clock in ticks
    start_time,        \* listen_for_messages: start_time (-1 before the call)
    slept,             \* ticks spent in the current time.sleep(1)
    any_device_message_received,  \* listen_for_messages local
    devices_reported_back,        \* listen_for_messages local
    iterIdx,           \* position of the items() iterator (0 when not iterating)
    iterSize,          \* dict size recorded when the items() iterator was created
    verdict,           \* main: any_device_message_received (the return value)
    sent,              \* texts handed to requests.post, in order
    sinkFailures,      \* number of posts that raised RequestException
    polls,             \* history: loop bodies executed by listen_for_messages
    msgCount,          \* history: on_message invocations so far
    firedInWindow,     \* history: topics whose on_message fired in [start, deadline)
    msgsAtReturn,      \* history: msgCount when listen_for_messages returned (-1 before)
    config,            \* config.ini: [present: options found, topics: TOPICS.split(', ')]
    firedEarly,        \* history: topics whose on_message fired in the window, a full
                       \* polling interval or more before the deadline
    anyAtOpen,         \* history: any ledger value True when listen_for_messages started
    checkRunLedger     \* ledger of a --check run fed the same publications

vars == <<args, DEVICES, pc, client, broker, connOpen, connack, message_received,
          subscribed, netThread, now, start_time, slept,
          any_device_message_received, devices_reported_back, iterIdx, iterSize,
          verdict, sent, sinkFailures, polls, msgCount, firedInWindow,
          msgsAtReturn, config, firedEarly, anyAtOpen, checkRunLedger>>

\* ------------------------------------------------------------ helpers
Range(s) == {s[i] : i \in 1..Len(s)}

SeqsUpTo(S, n) == UNION {[1..m -> S] : m \in 1..n}

\* dict operations on a sequence of [k, v] records (insertion ordered)
DictKeys(d) == {d[i].k : i \in 1..Len(d)}

DictSet(d, key, val) ==
    IF key \in DictKeys(d)
    THEN [i \in 1..Len(d) |-> IF d[i].k = key THEN [k |-> key, v |-> val] ELSE d[i]]
    ELSE Append(d, [k |-> key, v |-> val])

TrueKeys(d) == {d[i].k : i \in {j \in 1..Len(d) : d[j].v}}

\* {device: False for device in DEVICES}
RECURSIVE InitLedgerFrom(_, _)
InitLedgerFrom(devs, acc) ==
    IF devs = <<>> THEN acc
    ELSE InitLedgerFrom(Tail(devs), DictSet(acc, Head(devs), FALSE))

InitLedger(devs) == InitLedgerFrom(devs, <<>>)

\* on_message: userdata['message_received'][msg.topic] = True
on_message(d, topic) == DictSet(d, topic, TRUE)

\* mutant of AnyTrue: any() over the keys instead of the values
AnyTrue_Keys(d) == \E i \in 1..Len(d) : d[i].k # ""

\* any(client._userdata['message_received'].values())
AnyTrue(d) == \E i \in 1..Len(d) : d[i].v

\* MQTT topic matching done by the broker for a subscription filter
Matches(filter, topic) == filter = topic \/ filter = "#"

\* paho's client.subscribe raises ValueError on an empty topic
SubscribeRaises(topic) == topic = ""

\* index of the first device whose subscribe raises, 0 if none
FirstInvalid(devs) ==
    IF \E i \in 1..Len(devs) : SubscribeRaises(devs[i])
    THEN CHOOSE i \in 1..Len(devs) :
            /\ SubscribeRaises(devs[i])
            /\ \A j \in 1..(i-1) : ~SubscribeRaises(devs[j])
    ELSE 0

\* mutant of VerdictMessage: check mode alerts when activity WAS observed
VerdictMessage_Inverted(a, anyActivity) ==
    IF a.check
    THEN IF anyActivity THEN CheckAlertText ELSE NoMessage
    ELSE IF anyActivity THEN DebugOkText ELSE DebugFailText

\* mutant of VerdictMessage: the run mode is ignored, debug texts always
VerdictMessage_ModeIgnored(a, anyActivity) ==
    IF anyActivity THEN DebugOkText ELSE DebugFailText

\* main, lines 148-155: the text to send after the window, or NoMessage
VerdictMessage(a, anyActivity) ==
    IF a.check
    THEN IF ~anyActivity THEN CheckAlertText ELSE NoMessage
    ELSE IF anyActivity THEN DebugOkText ELSE DebugFailText

\* mutant of ShouldSend: only the success flag is consulted
ShouldSend_SuccessOnly(a, success) == success

\* send_telegram_notification, line 53
ShouldSend(a, success) == a.check \/ a.debug \/ success

\* the options fetched by lines 36-45, as "SECTION.OPTION"
RequiredOptions ==
    {"MQTT.USER", "MQTT.PASS", "MQTT.BROKER", "DEVICES.TOPICS",
     "TELEGRAM.BOT_TOKEN", "TELEGRAM.CHAT_ID"}

\* mutant of ConfigComplete: the TELEGRAM section is not fetched at start-up
ConfigComplete_NoTelegram(present) ==
    {"MQTT.USER", "MQTT.PASS", "MQTT.BROKER", "DEVICES.TOPICS"} \subseteq present

\* lines 36-45 raise NoSectionError / NoOptionError unless all are present
ConfigComplete(present) == RequiredOptions \subseteq present

\* the config.ini files explored: complete ones with every TOPICS list, and
\* files with one option missing or with nothing at all (no file)
ConfigFiles ==
    {[present |-> RequiredOptions, topics |-> t] :
        t \in SeqsUpTo(ConfigTopics, MaxDevices)}
    \cup {[present |-> RequiredOptions \ {o}, topics |-> <<"a">>] :
              o \in RequiredOptions}
    \cup {[present |-> {}, topics |-> <<"a">>]}

Deadline == args.time * TicksPerSec

InWindow == pc \in {"w_check", "w_any", "w_iter", "w_sleep"}

\* ---------------------------------------------------------------- Init
Init ==
    /\ args \in {[check |-> c, debug |-> ~c, time |-> t] :
                    c \in BOOLEAN, t \in 0..MaxTime}
    /\ config \in ConfigFiles
    /\ DEVICES = <<>>
    /\ pc = "config"
    /\ client = "unset"
    /\ broker = "unknown"
    /\ connOpen = FALSE
    /\ connack = "pending"
    /\ message_received = <<>>
    /\ subscribed = {}
    /\ netThread = "none"
    /\ now = 0
    /\ start_time = -1
    /\ slept = 0
    /\ any_device_message_received = FALSE
    /\ devices_reported_back = {}
    /\ iterIdx = 0
    /\ iterSize = 0
    /\ verdict = FALSE
    /\ sent = <<>>
    /\ sinkFailures = 0
    /\ polls = 0
    /\ msgCount = 0
    /\ firedInWindow = {}
    /\ msgsAtReturn = -1
    /\ firedEarly = {}
    /\ anyAtOpen = FALSE
    /\ checkRunLedger = <<>>

\* ------------------------------------------------------ configuration
\* module level, lines 30-48: every required option is fetched; a missing
\* section or option is caught and the process exits with status 1.
\* Otherwise the globals are set and main() is entered.
LoadConfig ==
    /\ pc = "config"
    /\ IF ConfigComplete(config.present)
       THEN /\ DEVICES' = config.topics
            /\ pc' = "create"
       ELSE /\ DEVICES' = DEVICES
            /\ pc' = "exit1"
    /\ UNCHANGED <<args, client, broker, connOpen, connack, message_received,
                   subscribed, netThread, now, start_time, slept,
                   any_device_message_received, devices_reported_back, iterIdx,
                   iterSize, verdict, sent, sinkFailures, polls, msgCount,
                   firedInWindow, msgsAtReturn, config, firedEarly, anyAtOpen,
                   checkRunLedger>>

\* ------------------------------------------------- notification sink
\* send_telegram_notification(message, success=False); ok = FALSE is a
\* requests.post that raises RequestException, which is caught and printed.
send_telegram_notification(message, success, ok) ==
    IF ShouldSend(args, success)
    THEN /\ sent' = Append(sent, message)
         /\ sinkFailures' = IF ok THEN sinkFailures ELSE sinkFailures + 1
    ELSE UNCHANGED <<sent, sinkFailures>>

\* mutant of Caught: the except clause names the wrong exception class
Caught_Nothing(exc) == FALSE

\* send_telegram_notification, line 66: except requests.exceptions.RequestException
Caught(exc) == exc = "RequestException"

\* where main continues after a call of send_telegram_notification that is
\* its last statement: it returns, unless the post failed and was not caught
AfterSend(ok) == IF ok \/ Caught("RequestException") THEN "done" ELSE "raised"

\* --------------------------------------------------------- main thread
\* create_mqtt_client: builds the ledger, then client.connect(); connect
\* raises only when the transport cannot be established.  A broker that
\* refuses the credentials answers with a CONNACK that the network thread
\* hands to on_connect later.
create_mqtt_client ==
    /\ pc = "create"
    /\ message_received' = InitLedger(DEVICES)
    /\ checkRunLedger' = InitLedger(DEVICES)
    /\ \E outcome \in {"unreachable", "accepted", "refused"} :
          /\ broker' = outcome
          /\ IF outcome = "unreachable"
             THEN /\ client' = "None"
                  /\ connOpen' = FALSE
                  /\ pc' = "connfail"
             ELSE /\ client' = "client"
                  /\ connOpen' = TRUE
                  /\ pc' = "subscribe"
    /\ UNCHANGED <<args, DEVICES, connack, subscribed, netThread, now, start_time,
                   slept, any_device_message_received, devices_reported_back,
                   iterIdx, iterSize, verdict, sent, sinkFailures, polls,
                   msgCount, firedInWindow, msgsAtReturn,
                   config, firedEarly, anyAtOpen>>

\* mutant of MainConnFailed: the `return` of line 129 is missing
MainConnFailed_NoReturn ==
    /\ pc = "connfail"
    /\ \E ok \in BOOLEAN : send_telegram_notification(ConnFailText, FALSE, ok)
    /\ pc' = "subscribe"
    /\ UNCHANGED <<args, DEVICES, client, broker, connOpen, connack,
                   message_received, subscribed, netThread, now, start_time,
                   slept, any_device_message_received, devices_reported_back,
                   iterIdx, iterSize, verdict, polls, msgCount, firedInWindow,
                   msgsAtReturn, config, firedEarly, anyAtOpen, checkRunLedger>>

\* main, lines 127-129
MainConnFailed ==
    /\ pc = "connfail"
    /\ \E ok \in BOOLEAN :
          /\ send_telegram_notification(ConnFailText, FALSE, ok)
          /\ pc' = AfterSend(ok)
    /\ UNCHANGED <<args, DEVICES, client, broker, connOpen, connack,
                   message_received, subscribed, netThread, now, start_time,
                   slept, any_device_message_received, devices_reported_back,
                   iterIdx, iterSize, verdict, polls, msgCount, firedInWindow, msgsAtReturn,
                   config, firedEarly, anyAtOpen, checkRunLedger>>

\* main, lines 132-136, and subscribe_to_devices
subscribe_to_devices ==
    /\ pc = "subscribe"
    /\ LET bad == FirstInvalid(DEVICES) IN
          IF bad = 0
          THEN /\ subscribed' = Range(DEVICES)
               /\ pc' = "loop_start"
          ELSE /\ subscribed' = {DEVICES[i] : i \in 1..(bad - 1)}
               /\ pc' = "raised"
    /\ UNCHANGED <<args, DEVICES, client, broker, connOpen, connack,
                   message_received, netThread, now, start_time, slept,
                   any_device_message_received, devices_reported_back, iterIdx,
                   iterSize, verdict, sent, sinkFailures, polls, msgCount,
                   firedInWindow, msgsAtReturn,
                   config, firedEarly, anyAtOpen, checkRunLedger>>

\* start_client_loop
start_client_loop ==
    /\ pc = "loop_start"
    /\ netThread' = "running"
    /\ pc' = "listen"
    /\ UNCHANGED <<args, DEVICES, client, broker, connOpen, connack,
                   message_received, subscribed, now, start_time, slept,
                   any_device_message_received, devices_reported_back, iterIdx,
                   iterSize, verdict, sent, sinkFailures, polls, msgCount,
                   firedInWindow, msgsAtReturn,
                   config, firedEarly, anyAtOpen, checkRunLedger>>

\* listen_for_messages, lines 109-111
ListenStart ==
    /\ pc = "listen"
    /\ start_time' = now
    /\ any_device_message_received' = FALSE
    /\ devices_reported_back' = {}
    /\ anyAtOpen' = AnyTrue(message_received)
    /\ pc' = "w_check"
    /\ UNCHANGED <<args, DEVICES, client, broker, connOpen, connack,
                   message_received, subscribed, netThread, now, slept, iterIdx,
                   iterSize, verdict, sent, sinkFailures, polls, msgCount,
                   firedInWindow, msgsAtReturn,
                   config, firedEarly, checkRunLedger>>

\* mutant of LoopContinues: the loop stops as soon as activity was seen
LoopContinues_EarlyExit ==
    now - start_time < Deadline /\ ~any_device_message_received

\* the loop condition of line 112
LoopContinues == now - start_time < Deadline

\* listen_for_messages, line 112 (and the return of line 119)
ListenCheck ==
    /\ pc = "w_check"
    /\ IF LoopContinues
       THEN /\ pc' = "w_any"
            /\ polls' = polls + 1
            /\ UNCHANGED <<verdict, msgsAtReturn>>
       ELSE /\ pc' = "loop_stop"
            /\ verdict' = any_device_message_received
            /\ msgsAtReturn' = msgCount
            /\ UNCHANGED polls
    /\ UNCHANGED <<args, DEVICES, client, broker, connOpen, connack,
                   message_received, subscribed, netThread, now, start_time,
                   slept, any_device_message_received, devices_reported_back,
                   iterIdx, iterSize, sent, sinkFailures, msgCount,
                   firedInWindow,
                   config, firedEarly, anyAtOpen, checkRunLedger>>

\* listen_for_messages, lines 113-115: the any() scan, and the creation of
\* the items() iterator when it is true
ListenAny ==
    /\ pc = "w_any"
    /\ IF AnyTrue(message_received)
       THEN /\ any_device_message_received' = TRUE
            /\ iterIdx' = 1
            /\ iterSize' = Len(message_received)
            /\ pc' = "w_iter"
       ELSE /\ pc' = "w_sleep"
            /\ UNCHANGED <<any_device_message_received, iterIdx, iterSize>>
    /\ UNCHANGED <<args, DEVICES, client, broker, connOpen, connack,
                   message_received, subscribed, netThread, now, start_time,
                   slept, devices_reported_back, verdict, sent, sinkFailures,
                   polls, msgCount, firedInWindow, msgsAtReturn,
                   config, firedEarly, anyAtOpen, checkRunLedger>>

\* mutant of Visit: the `if message_received` test is missing
Visit_NoTest(reported, item) == reported \cup {item.k}

\* listen_for_messages, lines 116-117: the body of the for loop
Visit(reported, item) == IF item.v THEN reported \cup {item.k} ELSE reported

\* listen_for_messages, lines 115-117: one step of the for loop.  The dict
\* iterator raises RuntimeError when the dict changed size since it was made.
ListenIter ==
    /\ pc = "w_iter"
    /\ IF Len(message_received) # iterSize
       THEN /\ pc' = "raised"
            /\ iterIdx' = 0
            /\ UNCHANGED devices_reported_back
       ELSE IF iterIdx > Len(message_received)
       THEN /\ pc' = "w_sleep"
            /\ iterIdx' = 0
            /\ UNCHANGED devices_reported_back
       ELSE /\ devices_reported_back' =
                  Visit(devices_reported_back, message_received[iterIdx])
            /\ iterIdx' = iterIdx + 1
            /\ pc' = "w_iter"
    /\ UNCHANGED <<args, DEVICES, client, broker, connOpen, connack,
                   message_received, subscribed, netThread, now, start_time,
                   slept, any_device_message_received, iterSize, verdict, sent,
                   sinkFailures, polls, msgCount, firedInWindow, msgsAtReturn,
                   config, firedEarly, anyAtOpen, checkRunLedger>>

\* listen_for_messages, line 118: time.sleep(1), one tick at a time
ListenSleep ==
    /\ pc = "w_sleep"
    /\ now' = now + 1
    /\ IF slept + 1 >= TicksPerSec
       THEN /\ slept' = 0
            /\ pc' = "w_check"
       ELSE /\ slept' = slept + 1
            /\ pc' = "w_sleep"
    /\ UNCHANGED <<args, DEVICES, client, broker, connOpen, connack,
                   message_received, subscribed, netThread, start_time,
                   any_device_message_received, devices_reported_back, iterIdx,
                   iterSize, verdict, sent, sinkFailures, polls, msgCount,
                   firedInWindow, msgsAtReturn,
                   config, firedEarly, anyAtOpen, checkRunLedger>>

\* mutant of stop_client_loop: loop_stop() is not called
stop_client_loop_Skipped ==
    /\ pc = "loop_stop"
    /\ pc' = "notify"
    /\ UNCHANGED <<args, DEVICES, client, broker, connOpen, connack,
                   message_received, subscribed, netThread, now, start_time,
                   slept, any_device_message_received, devices_reported_back,
                   iterIdx, iterSize, verdict, sent, sinkFailures, polls,
                   msgCount, firedInWindow, msgsAtReturn, config, firedEarly,
                   anyAtOpen, checkRunLedger>>

\* stop_client_loop
stop_client_loop ==
    /\ pc = "loop_stop"
    /\ netThread' = IF netThread = "running" THEN "stopped" ELSE netThread
    /\ pc' = "notify"
    /\ UNCHANGED <<args, DEVICES, client, broker, connOpen, connack,
                   message_received, subscribed, now, start_time, slept,
                   any_device_message_received, devices_reported_back, iterIdx,
                   iterSize, verdict, sent, sinkFailures, polls, msgCount,
                   firedInWindow, msgsAtReturn,
                   config, firedEarly, anyAtOpen, checkRunLedger>>

\* main, lines 147-155
MainNotify ==
    /\ pc = "notify"
    /\ LET message == VerdictMessage(args, verdict) IN
          IF message = NoMessage
          THEN /\ UNCHANGED <<sent, sinkFailures>>
               /\ pc' = "done"
          ELSE \E ok \in BOOLEAN :
                  /\ send_telegram_notification(message, FALSE, ok)
                  /\ pc' = AfterSend(ok)
    /\ UNCHANGED <<args, DEVICES, client, broker, connOpen, connack,
                   message_received, subscribed, netThread, now, start_time,
                   slept, any_device_message_received, devices_reported_back,
                   iterIdx, iterSize, verdict, polls, msgCount, firedInWindow, msgsAtReturn,
                   config, firedEarly, anyAtOpen, checkRunLedger>>

\* ------------------------------------------------------ network thread
\* on_connect: called with the CONNACK return code; changes no state of
\* the program (it only prints in debug mode), whatever the return code.
on_connect ==
    /\ netThread = "running"
    /\ connack = "pending"
    /\ connack' = broker
    /\ UNCHANGED <<args, DEVICES, pc, client, broker, connOpen, message_received,
                   subscribed, netThread, now, start_time, slept,
                   any_device_message_received, devices_reported_back, iterIdx,
                   iterSize, verdict, sent, sinkFailures, polls, msgCount,
                   firedInWindow, msgsAtReturn,
                   config, firedEarly, anyAtOpen, checkRunLedger>>

\* the window is open and the scan of the poll that starts one polling
\* interval before the deadline has not been made yet
BeforeLastPoll ==
    /\ InWindow
    /\ \/ now - start_time < Deadline - TicksPerSec
       \/ now - start_time = Deadline - TicksPerSec /\ pc \in {"w_check", "w_any"}

\* on_message for a publication that matches a subscription.  In debug mode
\* msg.payload.decode() raises on a payload that is not UTF-8, after the
\* ledger write; the exception ends the network thread.
OnMessage(topic, utf8) ==
    /\ netThread = "running"
    /\ connack = "accepted"
    /\ msgCount < MaxMsgs
    /\ \E f \in subscribed : Matches(f, topic)
    /\ message_received' = on_message(message_received, topic)
    /\ netThread' = IF args.debug /\ ~utf8 THEN "dead" ELSE netThread
    /\ msgCount' = msgCount + 1
    /\ firedInWindow' = IF InWindow /\ LoopContinues
                        THEN firedInWindow \cup {topic}
                        ELSE firedInWindow
    /\ firedEarly' = IF BeforeLastPoll THEN firedEarly \cup {topic} ELSE firedEarly
    /\ checkRunLedger' = on_message(checkRunLedger, topic)
    /\ UNCHANGED <<args, DEVICES, pc, client, broker, connOpen, connack,
                   subscribed, now, start_time, slept,
                   any_device_message_received, devices_reported_back, iterIdx,
                   iterSize, verdict, sent, sinkFailures, polls, msgsAtReturn,
                   config, anyAtOpen>>

Deliver == \E topic \in PublishTopics, utf8 \in BOOLEAN : OnMessage(topic, utf8)

\* a matching publication that reaches the client after the exception of
\* line 81 has ended the network thread: on_message is not called; the
\* --check run, whose on_message never decodes the payload, records it
LostPublication(topic) ==
    /\ netThread = "dead"
    /\ connack = "accepted"
    /\ pc \in {"listen", "w_check", "w_any", "w_iter", "w_sleep", "loop_stop"}
    /\ \E f \in subscribed : Matches(f, topic)
    /\ on_message(checkRunLedger, topic) # checkRunLedger
    /\ checkRunLedger' = on_message(checkRunLedger, topic)
    /\ UNCHANGED <<args, DEVICES, pc, client, broker, connOpen, connack,
                   message_received, subscribed, netThread, now, start_time,
                   slept, any_device_message_received, devices_reported_back,
                   iterIdx, iterSize, verdict, sent, sinkFailures, polls,
                   msgCount, firedInWindow, msgsAtReturn, config, firedEarly,
                   anyAtOpen>>

Lost == \E topic \in PublishTopics : LostPublication(topic)

Next ==
    \/ LoadConfig
    \/ create_mqtt_client
    \/ MainConnFailed
    \/ subscribe_to_devices
    \/ start_client_loop
    \/ ListenStart
    \/ ListenCheck
    \/ ListenAny
    \/ ListenIter
    \/ ListenSleep
    \/ stop_client_loop
    \/ MainNotify
    \/ on_connect
    \/ Deliver
    \/ Lost

Spec == Init /\ [][Next]_vars

\* ================================================================ claims
\* listen_for_messages has returned to main (successful connection only)
WindowReturned == msgsAtReturn >= 0

Elapsed == now - start_time

ConfiguredSources == Range(DEVICES)

\* C1: every configured source whose on_message fired at a time t with
\* window start <= t < deadline is in devices_reported_back when
\* listen_for_messages returns, and the returned anyActivity is true.
C1_ArrivalBeforeDeadlineReported ==
    WindowReturned =>
        \A x \in firedInWindow \cap ConfiguredSources :
            x \in devices_reported_back /\ verdict

\* C2: when no on_message has fired by the time listen_for_messages
\* returns, it returns anyActivity = false and the reporting set is empty.
C2_SilenceGivesNoActivity ==
    (WindowReturned /\ msgsAtReturn = 0) =>
        (verdict = FALSE /\ devices_reported_back = {})

C2_Witness ==
    /\ WindowReturned
    /\ msgsAtReturn = 0
    /\ connack = "accepted"
    /\ args.time >= 1
    /\ polls >= 1
    /\ "#" \in subscribed

\* C3: once create_mqtt_client has built the ledger, its key set stays
\* equal to the configured DEVICES and a True value never becomes False.
C3_LedgerKeysFixedValuesMonotone ==
    [][(client # "unset") =>
          /\ DictKeys(message_received') = ConfiguredSources
          /\ TrueKeys(message_received) \subseteq TrueKeys(message_received')]_vars

\* C4: at the step where listen_for_messages returns, the reporting set is
\* exactly the set of keys whose ledger value is True at that moment.
C4_ResultIsSnapshotAtClose ==
    [][(pc = "w_check" /\ pc' = "loop_stop") =>
          devices_reported_back' = TrueKeys(message_received')]_vars

\* C5: after a successful connection, the notifications of a finished run
\* are determined by (RunMode, anyActivity) as in the policy table, and
\* nothing is sent before the decision.
C5_NotificationPolicy ==
    (client = "client") =>
        /\ (pc # "done") => sent = <<>>
        /\ (pc = "done" /\ args.check /\ ~verdict) => sent = <<CheckAlertText>>
        /\ (pc = "done" /\ args.check /\ verdict) => sent = <<>>
        /\ (pc = "done" /\ args.debug /\ ~verdict) => sent = <<DebugFailText>>
        /\ (pc = "done" /\ args.debug /\ verdict) => sent = <<DebugOkText>>
        /\ (args.check # args.debug)

C5_Witness ==
    /\ client = "client"
    /\ pc = "done"
    /\ args.check
    /\ verdict
    /\ sent = <<>>

\* C6: when create_mqtt_client returns None, nothing is subscribed, the
\* network loop and the window never start, main returns normally and the
\* 'could not connect' text is the one and only notification.
C6_ConnFailShortCircuits ==
    (client = "None") =>
        /\ pc \in {"connfail", "done"}
        /\ subscribed = {}
        /\ netThread = "none"
        /\ start_time = -1
        /\ polls = 0
        /\ (pc = "connfail") => sent = <<>>
        /\ (pc = "done") => sent = <<ConnFailText>>

C6_Witness ==
    /\ client = "None"
    /\ pc = "done"
    /\ sent = <<ConnFailText>>
    /\ args.debug

\* C7: when the broker rejects the credentials, no subscription is issued,
\* the window does not run and the run's only notification is the
\* connection-failure text.
C7_AuthRejectionIsConnectionError ==
    (broker = "refused") =>
        /\ subscribed = {}
        /\ start_time = -1
        /\ (pc \in {"done", "raised"}) => sent = <<ConnFailText>>

\* C8: in every terminal state of a run that opened the connection, the
\* transport is closed and the network loop is stopped, and no verdict
\* notification is sent while the connection is still open.
C8_SessionReleasedOnEveryExit ==
    (client = "client") =>
        /\ (pc \in {"done", "raised"}) => (~connOpen /\ netThread # "running")
        /\ (sent # <<>>) => ~connOpen

\* C9: listen_for_messages returns only when the elapsed time has reached
\* the deadline and not later than one polling interval after it, having
\* run one poll per second of the deadline whatever arrived; while the
\* window is open the elapsed time has not passed the deadline.
C9_WindowRunsFullDeadline ==
    /\ WindowReturned =>
          /\ Elapsed >= Deadline
          /\ Elapsed <= Deadline + TicksPerSec
          /\ polls = args.time
    /\ InWindow => Elapsed <= Deadline

C9_Witness ==
    /\ WindowReturned
    /\ args.time >= 2
    /\ verdict
    /\ polls = args.time
    /\ msgsAtReturn >= 2

\* C10: in check mode, a finished run with a successful connection and no
\* on_message before listen_for_messages returned has sent exactly one
\* notification, the 'no message was received from any device' alert.
C10_CheckSilenceSendsOneAlert ==
    (pc = "done" /\ client = "client" /\ args.check /\ msgsAtReturn = 0) =>
        sent = <<CheckAlertText>>

C10_Witness ==
    /\ pc = "done"
    /\ client = "client"
    /\ args.check
    /\ msgsAtReturn = 0
    /\ connack = "accepted"
    /\ args.time >= 1
    /\ Len(DEVICES) = MaxDevices
    /\ sent = <<CheckAlertText>>

\* C11: a finished debug run in which exactly one configured source A has
\* delivered, at least once a full polling interval before the deadline,
\* ends with reporting set {A}, anyActivity true, the single 'working
\* properly' notification, and a window that lasted the full deadline.
C11_DebugSingleEarlySource ==
    \A A \in ConfiguredSources :
        (/\ pc = "done"
         /\ client = "client"
         /\ args.debug
         /\ TrueKeys(message_received) = {A}
         /\ A \in firedEarly) =>
            /\ devices_reported_back = {A}
            /\ verdict
            /\ sent = <<DebugOkText>>
            /\ Elapsed >= Deadline
            /\ polls = args.time

C11_Witness ==
    /\ pc = "done"
    /\ client = "client"
    /\ args.debug
    /\ args.time >= 2
    /\ Len(message_received) >= 2
    /\ TrueKeys(message_received) = {"a"}
    /\ "a" \in firedEarly
    /\ "a" \in ConfiguredSources
    /\ devices_reported_back = {"a"}
    /\ sent = <<DebugOkText>>

\* C12: a post that raises RequestException is caught: the step that
\* records the failure ends main normally, leaves the verdict as computed
\* and has handed the text to the sink; no run that raised has a failed post.
C12_DeliveryFailureSwallowed ==
    [][/\ (sinkFailures' > sinkFailures) =>
              (pc' = "done" /\ verdict' = verdict /\ Len(sent') = Len(sent) + 1)
       /\ (pc' = "raised") => (sinkFailures' = 0)]_vars

C12_Witness ==
    /\ pc = "done"
    /\ client = "client"
    /\ sinkFailures = 1
    /\ verdict
    /\ sent = <<DebugOkText>>

\* C13: the ledger of a debug run equals, in every state, the ledger of a
\* check run given the same configured sources, deadline and publications.
C13_ModeDoesNotInfluenceLedger ==
    message_received = checkRunLedger

\* C14: once the configuration has loaded, main never ends with an
\* uncaught exception.
C14_NoUncaughtException ==
    pc # "raised"

\* C15: when a required section or option is missing the process goes from
\* configuration loading straight to exit status 1: no connect, no
\* subscribe, no network loop and no notification request happen.
C15_ConfigErrorBeforeNetwork ==
    (config.present # RequiredOptions) =>
        /\ pc \in {"config", "exit1"}
        /\ client = "unset"
        /\ broker = "unknown"
        /\ ~connOpen
        /\ subscribed = {}
        /\ netThread = "none"
        /\ sent = <<>>

C15_Witness ==
    /\ pc = "exit1"
    /\ config.present = RequiredOptions \ {"TELEGRAM.CHAT_ID"}
    /\ sent = <<>>

\* C16: with deadline 0, listen_for_messages evaluates the ledger exactly
\* once and returns true iff some ledger entry was True when it started.
C16_ZeroDeadlineEvaluatesOnce ==
    (WindowReturned /\ args.time = 0) =>
        (polls = 1 /\ (verdict <=> anyAtOpen))

\* C17: under every interleaving of on_message with the polling loop, no
\* step of the loop raises, and a ledger entry that is True stays True.
C17_PollingSafeWithoutLock ==
    [][InWindow =>
          /\ pc' # "raised"
          /\ TrueKeys(message_received) \subseteq TrueKeys(message_received')]_vars

\* C18: the ledger changes only while the network loop runs; the loop
\* starts only after every configured source was subscribed; the window
\* opens only after the loop started; after a successful connection a
\* notification exists only once the window returned and the loop is no
\* longer running.
C18_FixedPhaseOrder ==
    [][/\ (client # "unset" /\ message_received' # message_received) =>
              netThread = "running"
       /\ (netThread' # "none") =>
              (client' = "client" /\ subscribed' = Range(DEVICES'))
       /\ (start_time' >= 0) => (netThread' # "none")
       /\ (client' = "client" /\ sent' # <<>>) =>
              (msgsAtReturn' >= 0 /\ netThread' \in {"stopped", "dead"})]_vars

C18_Witness ==
    /\ pc = "done"
    /\ client = "client"
    /\ netThread = "stopped"
    /\ msgCount >= 2
    /\ Cardinality(subscribed) = 2
    /\ sent = <<DebugOkText>>

\* C19 (as stated): at every point of the polling loop and at its return,
\* the flag is true iff the reporting set is non-empty, and every member of
\* the reporting set has ledger value True.
C19_FlagAgreesAtEveryPoint ==
    /\ (InWindow \/ WindowReturned) =>
          (any_device_message_received <=> devices_reported_back # {})
    /\ devices_reported_back \subseteq TrueKeys(message_received)

\* C19 (amended): at every poll boundary of listen_for_messages (the loop
\* test, the point before the scan, the sleep) and after its return, the
\* flag is true iff the reporting set is non-empty; while the for loop of
\* lines 115-117 runs the flag is already true; every member of the
\* reporting set always has ledger value True.
C19_FlagAgreesWithReportingSet ==
    /\ (start_time >= 0 /\ pc \notin {"w_iter", "raised"}) =>
          (any_device_message_received <=> devices_reported_back # {})
    /\ (pc = "w_iter") => any_device_message_received
    /\ devices_reported_back \subseteq TrueKeys(message_received)

C19_Witness ==
    /\ pc = "w_sleep"
    /\ any_device_message_received
    /\ devices_reported_back = {"a"}
    /\ DictKeys(message_received) = {"a", "b"}
    /\ polls >= 2

\* C20: at most one notification request is made in a run.
C20_AtMostOneNotification ==
    Len(sent) <= 1

C20_Witness ==
    /\ pc = "done"
    /\ client = "None"
    /\ sent = <<ConnFailText>>
    /\ sinkFailures = 1
====
